---- MODULE Spec2Model ----
(***************************************************************************)
(* Version and build-number decision engine of asc-next-version.           *)
(*                                                                         *)
(* Eight specifications share this module:                                 *)
(*   SpecEngine    the Decision Engine (VersionCalculationService), a pure *)
(*                 function applied to bounded inputs;                     *)
(*   SpecResolver  the three-source build-number cascade getMaxBuildNumber *)
(*                 of services/appStoreService.ts;                         *)
(*   SpecMaxBuild  AppVersionService.findMaximumBuildNumber over the       *)
(*                 backend's build list;                                   *)
(*   Spec          one run of NextVersionDeterminationUseCase              *)
(*                 .determineNextVersion against a backend;                *)
(*   SpecValues    the value objects SemanticVersion and BuildNumber       *)
(*                 parsed, printed and incremented;                        *)
(*   SpecOrder     compareTo and isGreaterThan of both value objects over  *)
(*                 three values;                                           *)
(*   SpecCalls     the backend calls of getMaxBuildNumber and of           *)
(*                 determineNextVersion, each started and completed;       *)
(*   SpecOrchestration  one run of the earlier pipeline, services/         *)
(*                 orchestrationService.js with versioningService.js,      *)
(*                 whose engine answers skip for a blocking state.         *)
(***************************************************************************)
EXTENDS Integers, Sequences, FiniteSets, TLC

VARIABLES
  \* ---- Decision Engine (SpecEngine)
  enginePc, targetVersion, maxExistingBuildNumber, engineOut,
  \* ---- Build-Number Resolver (SpecResolver)
  resolverPc, versionInfo, directBuild, preReleaseVersions, trainBuilds,
  directBuilds, resolverCalls, resolverOut,
  \* ---- findMaximumBuildNumber (SpecMaxBuild)
  maxPc, defaultBuildNumber, maximumOut,
  \* ---- backend records (Spec, SpecMaxBuild)
  builds, releases,
  \* ---- one run of determineNextVersion (Spec)
  pc, createNewVersion, platform, app, liveVersion, nextVersion,
  existingNextVersion, maxUploadedBuild, actionResult, versionCreated,
  result, error, calls,
  \* ---- the release-record objects a run has constructed, by reference
  heap,
  \* ---- the value objects Version and BuildNumber (SpecValues)
  valuePc, versionInput, parsedVersion, versionText, incrementedVersion,
  buildValue, incrementedBuild,
  \* ---- three values under comparison (SpecOrder)
  orderPc, operands, comparisons, greater,
  \* ---- backend calls started and completed (SpecCalls)
  callProgram, callInput, callPc, inFlight, events

engineVars == <<enginePc, targetVersion, maxExistingBuildNumber, engineOut>>

resolverVars == <<resolverPc, versionInfo, directBuild, preReleaseVersions,
                  trainBuilds, directBuilds, resolverCalls, resolverOut>>

maxVars == <<maxPc, defaultBuildNumber, maximumOut>>

backendVars == <<builds, releases>>

runVars == <<pc, createNewVersion, platform, app, liveVersion, nextVersion,
             existingNextVersion, maxUploadedBuild, actionResult,
             versionCreated, result, error, calls, heap>>

valueVars == <<valuePc, versionInput, parsedVersion, versionText,
               incrementedVersion, buildValue, incrementedBuild>>

orderVars == <<orderPc, operands, comparisons, greater>>

callVars == <<callProgram, callInput, callPc, inFlight, events>>

vars == <<engineVars, resolverVars, maxVars, backendVars, runVars, valueVars,
          orderVars, callVars>>

(***************************************************************************)
(* Bounds of the model.                                                    *)
(***************************************************************************)
\* Largest build counter the backend holds.  It exceeds the page size of
\* fetchBuilds, so that a build list longer than one page is reachable.
MaxBuild == 11

\* Largest decimal digit used in the build version strings the resolver's
\* sources answer with ("0", "2", "10", "01", ...).
MaxDigit == 2

(***************************************************************************)
(* Optional values: T | null.                                              *)
(***************************************************************************)
None == << >>

Some(x) == <<x>>

IsSome(o) == o # << >>

Get(o) == o[1]

(***************************************************************************)
(* Decimal strings, as sequences of digits, and JavaScript's parseInt and  *)
(* String on them.                                                         *)
(***************************************************************************)
RECURSIVE ParseInt(_)
ParseInt(s) ==
  IF Len(s) = 0 THEN 0
  ELSE 10 * ParseInt(SubSeq(s, 1, Len(s) - 1)) + s[Len(s)]

RECURSIVE ToDigits(_)
ToDigits(n) ==
  IF n < 10 THEN <<n>> ELSE Append(ToDigits(n \div 10), n % 10)

(***************************************************************************)
(* BuildNumber value object.                                               *)
(***************************************************************************)
\* increment() returning the same value.
BuildNumberIncrementByNone(value) == value

BuildNumberIncrement(value) == value + 1

BuildNumberCompareTo(a, b) == a - b

\* The comparison with its operands exchanged.
BuildNumberIsSmallerThan(a, b) == BuildNumberCompareTo(b, a) > 0

BuildNumberIsGreaterThan(a, b) == BuildNumberCompareTo(a, b) > 0

(***************************************************************************)
(* Lifecycle states and the release record entity.                         *)
(***************************************************************************)
APP_STORE_STATES ==
  { "READY_FOR_SALE", "ACCEPTED", "PROCESSING_FOR_APP_STORE",
    "PENDING_CONTRACT", "WAITING_FOR_EXPORT_COMPLIANCE",
    "REPLACED_WITH_NEW_VERSION", "REMOVED_FROM_SALE",
    "NOT_APPLICABLE_FOR_REVIEW", "PREPARE_FOR_SUBMISSION",
    "WAITING_FOR_REVIEW", "IN_REVIEW", "REJECTED",
    "PENDING_DEVELOPER_RELEASE", "DEVELOPER_REJECTED", "METADATA_REJECTED",
    "INVALID_BINARY", "DEVELOPER_REMOVED_FROM_SALE" }

\* A state value the backend may send that the enumeration does not list.
UNKNOWN_STATE == "SOME_FUTURE_STATE"

BackendStates == APP_STORE_STATES \cup {UNKNOWN_STATE}

BUILD_NUMBER_INCREMENTABLE_STATES ==
  { "DEVELOPER_REMOVED_FROM_SALE", "DEVELOPER_REJECTED", "IN_REVIEW",
    "INVALID_BINARY", "METADATA_REJECTED", "PENDING_DEVELOPER_RELEASE",
    "PREPARE_FOR_SUBMISSION", "REJECTED", "WAITING_FOR_REVIEW" }

\* new AppStoreVersion({id, version, buildNumber, state, platform})
AppStoreVersion(id, version, buildNumber, state, plat) ==
  [id |-> id, version |-> version, buildNumber |-> buildNumber,
   state |-> state, platform |-> plat]

\* shared/constants/index.ts as an earlier version had it: six states
INCREMENTABLE_STATES ==
  {"PREPARE_FOR_SUBMISSION", "REJECTED", "DEVELOPER_REJECTED",
   "METADATA_REJECTED", "WAITING_FOR_REVIEW", "IN_REVIEW"}

\* entities/appStoreVersion.ts: canIncrementBuild over the earlier constant
canIncrementBuild(v) == v.state \in INCREMENTABLE_STATES

\* Incrementable unless the state is the live one.
canIncrementUnlessLive(v) == v.state # "READY_FOR_SALE"

canIncrementBuildNumber(v) == v.state \in BUILD_NUMBER_INCREMENTABLE_STATES

isLiveVersion(v) == v.state = "READY_FOR_SALE"

calculateNextBuildNumber(v) == BuildNumberIncrement(v.buildNumber)

(***************************************************************************)
(* Decision Engine: VersionCalculationService.                             *)
(***************************************************************************)
CREATE_NEW_VERSION == "new_version"

INCREMENT_BUILD_NUMBER == "increment_build"

VERSION_INCREMENT_NOT_ALLOWED == "VERSION_INCREMENT_NOT_ALLOWED"

stateDescriptions ==
  [ s \in APP_STORE_STATES |->
    CASE s = "READY_FOR_SALE" ->
           "This version is already live on the App Store. Create a new version."
      [] s = "ACCEPTED" ->
           "This version has been accepted and is waiting to be released. Release it first or create a new version."
      [] s = "PROCESSING_FOR_APP_STORE" ->
           "This version is being processed by Apple. Wait for completion or create a new version."
      [] s = "PENDING_CONTRACT" ->
           "This version requires contract agreement. Resolve in App Store Connect or create a new version."
      [] s = "WAITING_FOR_EXPORT_COMPLIANCE" ->
           "This version needs export compliance. Complete in App Store Connect or create a new version."
      [] s = "REPLACED_WITH_NEW_VERSION" ->
           "This version has been replaced. Use a higher version number."
      [] s = "REMOVED_FROM_SALE" ->
           "This version has been removed from sale. Create a new version."
      [] s = "NOT_APPLICABLE_FOR_REVIEW" ->
           "This version is not applicable for review. Create a new version."
      [] s = "PREPARE_FOR_SUBMISSION" ->
           "This version is being prepared for submission. Wait for submission or create a new version."
      [] s = "WAITING_FOR_REVIEW" ->
           "This version is waiting for review. Wait for review completion or create a new version."
      [] s = "IN_REVIEW" ->
           "This version is currently in review. Wait for review completion or create a new version."
      [] s = "REJECTED" ->
           "This version has been rejected. Address rejection issues or create a new version."
      [] s = "PENDING_DEVELOPER_RELEASE" ->
           "This version is pending developer release. Release it or create a new version."
      [] s = "DEVELOPER_REJECTED" ->
           "This version was rejected by the developer. Resubmit or create a new version."
      [] s = "METADATA_REJECTED" ->
           "This version has metadata issues. Fix metadata or create a new version."
      [] s = "INVALID_BINARY" ->
           "This version has an invalid binary. Upload a new binary or create a new version."
      [] s = "DEVELOPER_REMOVED_FROM_SALE" ->
           "This version was removed by the developer. Create a new version." ]

\* The fallback arm of __createVersionStateError, for a state with no entry
\* in stateDescriptions; the state itself is carried in the error details.
DefaultStateDescription ==
  "This version is in a state which does not allow new builds."

\* A thrown error: its stable code, its details and its description.
Thrown(code, details, description) ==
  [ok |-> FALSE, code |-> code, details |-> details,
   description |-> description]

Returned(action, buildNumber, requiresVersionCreation) ==
  [ok |-> TRUE, action |-> action, buildNumber |-> buildNumber,
   requiresVersionCreation |-> requiresVersionCreation]

_createVersionStateError(version) ==
  Thrown(VERSION_INCREMENT_NOT_ALLOWED, version.state,
         IF version.state \in DOMAIN stateDescriptions
           THEN stateDescriptions[version.state]
           ELSE DefaultStateDescription)

\* The earlier engine's choice (domain/services/versionCalculator.js): the
\* candidate's own next counter whenever it has builds.
calculateNextBuildNumberOwnOnly(version, maxBuild) ==
  IF version.buildNumber > 0
    THEN calculateNextBuildNumber(version)
    ELSE BuildNumberIncrement(maxBuild)

_calculateNextBuildNumber(version, maxBuild) ==
  LET versionHasBuilds == version.buildNumber > 0
      versionNextBuild == calculateNextBuildNumber(version)
      globalNextBuild  == BuildNumberIncrement(maxBuild)
  IN IF ~versionHasBuilds
       THEN BuildNumberIncrement(maxBuild)
       ELSE IF BuildNumberIsGreaterThan(versionNextBuild, globalNextBuild)
              THEN versionNextBuild
              ELSE globalNextBuild

\* The earlier engine's soft outcome for a blocking state.
SKIP == "skip"

determineVersionActionSkipping(target, maxBuild) ==
  IF ~IsSome(target)
    THEN Returned(CREATE_NEW_VERSION, Some(BuildNumberIncrement(maxBuild)), TRUE)
    ELSE IF canIncrementBuildNumber(Get(target))
      THEN Returned(INCREMENT_BUILD_NUMBER,
                    Some(_calculateNextBuildNumber(Get(target), maxBuild)),
                    FALSE)
      ELSE Returned(SKIP, None, FALSE)

\* A new version that reuses the current maximum instead of passing it.
determineVersionActionReusingMax(target, maxBuild) ==
  IF ~IsSome(target)
    THEN Returned(CREATE_NEW_VERSION, Some(maxBuild), TRUE)
    ELSE IF canIncrementBuildNumber(Get(target))
      THEN Returned(INCREMENT_BUILD_NUMBER,
                    Some(_calculateNextBuildNumber(Get(target), maxBuild)),
                    FALSE)
      ELSE _createVersionStateError(Get(target))

determineVersionAction(target, maxBuild) ==
  IF ~IsSome(target)
    THEN Returned(CREATE_NEW_VERSION, Some(BuildNumberIncrement(maxBuild)), TRUE)
    ELSE IF canIncrementBuildNumber(Get(target))
      THEN Returned(INCREMENT_BUILD_NUMBER,
                    Some(_calculateNextBuildNumber(Get(target), maxBuild)),
                    FALSE)
      ELSE _createVersionStateError(Get(target))

(***************************************************************************)
(* Variables a specification does not use rest at these values.            *)
(***************************************************************************)
EngineIdle ==
  /\ enginePc = "idle"
  /\ targetVersion = None
  /\ maxExistingBuildNumber = 0
  /\ engineOut = None

ResolverIdle ==
  /\ resolverPc = "idle"
  /\ versionInfo = FALSE
  /\ directBuild = "none"
  /\ preReleaseVersions = "none"
  /\ trainBuilds = "none"
  /\ directBuilds = "none"
  /\ resolverCalls = << >>
  /\ resolverOut = None

MaxIdle ==
  /\ maxPc = "idle"
  /\ defaultBuildNumber = 0
  /\ maximumOut = None

BackendIdle ==
  /\ builds = {}
  /\ releases = {}

CallIdle ==
  /\ callProgram = "idle"
  /\ callInput = FALSE
  /\ callPc = <<"idle">>
  /\ inFlight = {}
  /\ events = << >>

OrderIdle ==
  /\ orderPc = "idle"
  /\ operands = << >>
  /\ comparisons = << >>
  /\ greater = << >>

ValueIdle ==
  /\ valuePc = "idle"
  /\ versionInput = << >>
  /\ parsedVersion = None
  /\ versionText = << >>
  /\ incrementedVersion = None
  /\ buildValue = 0
  /\ incrementedBuild = None

RunIdle ==
  /\ pc = "idle"
  /\ createNewVersion = FALSE
  /\ platform = "IOS"
  /\ app = None
  /\ liveVersion = None
  /\ nextVersion = None
  /\ existingNextVersion = None
  /\ maxUploadedBuild = None
  /\ actionResult = None
  /\ versionCreated = FALSE
  /\ result = None
  /\ error = None
  /\ calls = << >>
  /\ heap = << >>

(***************************************************************************)
(* SpecEngine: determineVersionAction applied to every bounded input.      *)
(***************************************************************************)
EngineTargets ==
  {None} \cup
  { Some(AppStoreVersion("version-next", <<1, 0, 1>>, own, s, "IOS")) :
      own \in 0..MaxBuild, s \in BackendStates }

EngineInit ==
  /\ enginePc = "ready"
  /\ targetVersion \in EngineTargets
  /\ maxExistingBuildNumber \in 0..MaxBuild
  /\ engineOut = None
  /\ ResolverIdle /\ MaxIdle /\ BackendIdle /\ RunIdle /\ ValueIdle /\ OrderIdle /\ CallIdle

Decide ==
  /\ enginePc = "ready"
  /\ engineOut' = Some(determineVersionAction(targetVersion, maxExistingBuildNumber))
  /\ enginePc' = "done"
  /\ UNCHANGED <<targetVersion, maxExistingBuildNumber>>
  /\ UNCHANGED <<resolverVars, maxVars, backendVars, runVars, valueVars, orderVars, callVars>>

EngineNext == Decide

SpecEngine == EngineInit /\ [][EngineNext]_vars

(***************************************************************************)
(* Claims about the Decision Engine.                                       *)
(***************************************************************************)
Larger(a, b) == IF a >= b THEN a ELSE b

BlockingStates ==
  { "READY_FOR_SALE", "ACCEPTED", "PROCESSING_FOR_APP_STORE",
    "PENDING_CONTRACT", "WAITING_FOR_EXPORT_COMPLIANCE",
    "NOT_APPLICABLE_FOR_REVIEW", "REPLACED_WITH_NEW_VERSION",
    "REMOVED_FROM_SALE" }

\* C2: with no candidate release, for every current maximum m, the engine
\* returns CREATE_NEW_VERSION with build number m + 1 and
\* requiresVersionCreation = true.
C2_AbsentCreatesNewVersion ==
  (enginePc = "done" /\ targetVersion = None) =>
    /\ Get(engineOut).ok
    /\ Get(engineOut).action = "new_version"
    /\ Get(engineOut).buildNumber = Some(maxExistingBuildNumber + 1)
    /\ Get(engineOut).requiresVersionCreation = TRUE

C2_Witness ==
  /\ enginePc = "done"
  /\ targetVersion = None
  /\ maxExistingBuildNumber = 5
  /\ Get(engineOut).buildNumber = Some(6)

Failure == [kind |-> "fail", version |-> << >>]

NoResult == [kind |-> "none", version |-> << >>]

Found == [kind |-> "found", version |-> << >>]

Build(s) == [kind |-> "build", version |-> s]

BuildStrings ==
  { <<d>> : d \in 0..MaxDigit } \cup
  { <<d, e>> : d \in 0..MaxDigit, e \in 0..MaxDigit }

BuildAnswers == {Failure, NoResult} \cup { Build(s) : s \in BuildStrings }

TrainAnswers == {Failure, NoResult, Found}

ResolverInit ==
  /\ resolverPc = "start"
  /\ versionInfo \in BOOLEAN
  /\ directBuild \in BuildAnswers
  /\ preReleaseVersions \in TrainAnswers
  /\ trainBuilds \in BuildAnswers
  /\ directBuilds \in BuildAnswers
  /\ resolverCalls = << >>
  /\ resolverOut = None
  /\ EngineIdle /\ MaxIdle /\ BackendIdle /\ RunIdle /\ ValueIdle /\ OrderIdle /\ CallIdle

ResolverFrame ==
  /\ UNCHANGED <<versionInfo, directBuild, preReleaseVersions, trainBuilds,
                 directBuilds>>
  /\ UNCHANGED <<engineVars, maxVars, backendVars, runVars, valueVars, orderVars, callVars>>

\* if (!versionInfo) return 0
ReturnZeroForNull ==
  /\ resolverPc = "start"
  /\ ~versionInfo
  /\ resolverOut' = Some(0)
  /\ resolverPc' = "done"
  /\ UNCHANGED resolverCalls
  /\ ResolverFrame

\* Method 1 with its rejection left uncaught.
Method1Uncaught ==
  /\ resolverPc = "start"
  /\ versionInfo
  /\ resolverCalls' = Append(resolverCalls, "getBuildForVersion")
  /\ IF directBuild.kind = "build"
       THEN /\ resolverOut' = Some(ParseInt(directBuild.version))
            /\ resolverPc' = "done"
       ELSE /\ resolverOut' = None
            /\ resolverPc' = IF directBuild.kind = "fail" THEN "failed" ELSE "method2"
  /\ ResolverFrame

\* Method 1: the direct appStoreVersions/{id}/build endpoint.
Method1 ==
  /\ resolverPc = "start"
  /\ versionInfo
  /\ resolverCalls' = Append(resolverCalls, "getBuildForVersion")
  /\ IF directBuild.kind = "build"
       THEN /\ resolverOut' = Some(ParseInt(directBuild.version))
            /\ resolverPc' = "done"
       ELSE /\ resolverOut' = None
            /\ resolverPc' = "method2"
  /\ ResolverFrame

\* Method 2, first call: the pre-release train of the version string.
Method2Train ==
  /\ resolverPc = "method2"
  /\ resolverCalls' = Append(resolverCalls, "getPreReleaseVersions")
  /\ resolverPc' = IF preReleaseVersions.kind = "found" THEN "method2builds"
                                                        ELSE "method3"
  /\ UNCHANGED resolverOut
  /\ ResolverFrame

\* Method 2 without its return: the cascade goes on to method 3.
Method2BuildsNoReturn ==
  /\ resolverPc = "method2builds"
  /\ resolverCalls' = Append(resolverCalls, "getBuilds:preReleaseVersion")
  /\ resolverOut' = None
  /\ resolverPc' = "method3"
  /\ ResolverFrame

\* Method 2, second call: the train's builds, sort -version, limit 1.
Method2Builds ==
  /\ resolverPc = "method2builds"
  /\ resolverCalls' = Append(resolverCalls, "getBuilds:preReleaseVersion")
  /\ IF trainBuilds.kind = "build"
       THEN /\ resolverOut' = Some(ParseInt(trainBuilds.version))
            /\ resolverPc' = "done"
       ELSE /\ resolverOut' = None
            /\ resolverPc' = "method3"
  /\ ResolverFrame

\* Method 3: the builds search by app and version, then "returning 0".
Method3 ==
  /\ resolverPc = "method3"
  /\ resolverCalls' = Append(resolverCalls, "getBuilds:app")
  /\ resolverOut' = IF directBuilds.kind = "build"
                      THEN Some(ParseInt(directBuilds.version))
                      ELSE Some(0)
  /\ resolverPc' = "done"
  /\ ResolverFrame

ResolverNext ==
  \/ ReturnZeroForNull
  \/ Method1
  \/ Method2Train
  \/ Method2Builds
  \/ Method3

SpecResolver == ResolverInit /\ [][ResolverNext]_vars

(***************************************************************************)
(* Claims about the Build-Number Resolver.                                 *)
(***************************************************************************)
\* What each of the three sources yields: its counter, or 0 for a failure
\* or no result.
Source1Value ==
  IF directBuild.kind = "build" THEN ParseInt(directBuild.version) ELSE 0

Source2Value ==
  IF preReleaseVersions.kind = "found" /\ trainBuilds.kind = "build"
    THEN ParseInt(trainBuilds.version) ELSE 0

Source3Value ==
  IF directBuilds.kind = "build" THEN ParseInt(directBuilds.version) ELSE 0

FirstPositiveSource ==
  IF Source1Value > 0 THEN Source1Value
  ELSE IF Source2Value > 0 THEN Source2Value
  ELSE Source3Value

Invoked(call) == \E i \in 1..Len(resolverCalls) : resolverCalls[i] = call

\* C7: the resolver returns the value of the first source, in priority
\* order, that yields a value greater than 0; a source that yields 0 or no
\* result does not end the cascade.
C7_FirstPositiveSourceWins ==
  (resolverPc = "done" /\ versionInfo) =>
    /\ Get(resolverOut) = FirstPositiveSource
    /\ (Source1Value = 0 => Invoked("getPreReleaseVersions"))

\* C8: when source 1 fails and source 2 returns a positive counter, the
\* result is source 2's counter and source 3 is never invoked.
C8_SecondSourceShortCircuits ==
  (/\ resolverPc = "done"
   /\ versionInfo
   /\ directBuild.kind = "fail"
   /\ Source2Value > 0) =>
    /\ Get(resolverOut) = ParseInt(trainBuilds.version)
    /\ ~Invoked("getBuilds:app")

C8_Witness ==
  /\ resolverPc = "done"
  /\ versionInfo
  /\ directBuild.kind = "fail"
  /\ trainBuilds = Build(<<2, 1>>)
  /\ directBuilds = Build(<<2, 2>>)
  /\ resolverOut = Some(21)
  /\ resolverCalls =
       <<"getBuildForVersion", "getPreReleaseVersions", "getBuilds:preReleaseVersion">>

AllSourcesEmpty ==
  /\ directBuild.kind \in {"fail", "none"}
  /\ preReleaseVersions.kind \in {"fail", "none"} \/ trainBuilds.kind \in {"fail", "none"}
  /\ directBuilds.kind \in {"fail", "none"}

\* C9: the resolver never fails: whatever each source answers (a value, no
\* result, a failure) the run goes on until it returns a build counter, and
\* it returns 0 when every source fails or has no result.
C9_ResolverNeverFails ==
  /\ resolverPc # "failed"
  /\ resolverPc \in {"start", "method2", "method2builds", "method3"} =>
       ENABLED ResolverNext
  /\ resolverPc = "done" =>
       /\ IsSome(resolverOut)
       /\ Get(resolverOut) \in Nat
       /\ (AllSourcesEmpty => Get(resolverOut) = 0)

C9_Witness ==
  /\ resolverPc = "done"
  /\ versionInfo
  /\ directBuild.kind = "fail"
  /\ preReleaseVersions.kind = "fail"
  /\ directBuilds.kind = "fail"
  /\ resolverOut = Some(0)
  /\ Len(resolverCalls) = 3

(***************************************************************************)
(* SemanticVersion value object.  A version string is the triple of its    *)
(* components' decimal strings; a SemanticVersion is the parsed numbers.   *)
(***************************************************************************)
VersionString(major, minor, patch) ==
  <<ToDigits(major), ToDigits(minor), ToDigits(patch)>>

\* new SemanticVersion(versionString): parseInt of each component
SemanticVersion(versionString) ==
  [major |-> ParseInt(versionString[1]),
   minor |-> ParseInt(versionString[2]),
   patch |-> ParseInt(versionString[3])]

\* A version string that reports the major and minor components only.
VersionToStringWithoutPatch(v) == VersionString(v.major, v.minor, 0)

\* toString(): the normalized string
VersionToString(v) == VersionString(v.major, v.minor, v.patch)


incrementPatch(v) == SemanticVersion(VersionString(v.major, v.minor, v.patch + 1))

\* A minor increment that keeps the patch component.
incrementMinorKeepingPatch(v) ==
  SemanticVersion(VersionString(v.major, v.minor + 1, v.patch))

incrementMinor(v) == SemanticVersion(VersionString(v.major, v.minor + 1, 0))

incrementMajor(v) == SemanticVersion(VersionString(v.major + 1, 0, 0))

\* A comparison that returns early on a positive difference only.
VersionCompareToPositiveOnly(a, b) ==
  IF a.major - b.major > 0 THEN a.major - b.major
  ELSE IF a.minor - b.minor # 0 THEN a.minor - b.minor
  ELSE a.patch - b.patch

VersionCompareTo(a, b) ==
  IF a.major - b.major # 0 THEN a.major - b.major
  ELSE IF a.minor - b.minor # 0 THEN a.minor - b.minor
  ELSE a.patch - b.patch

VersionIsGreaterThan(a, b) == VersionCompareTo(a, b) > 0

\* The next version taken as the minor increment, whatever the mode.
calculateNextMinorVersion(currentVersion, incrementType) ==
  incrementMinor(currentVersion)

calculateNextSemanticVersion(currentVersion, incrementType) ==
  CASE incrementType = "patch" -> incrementPatch(currentVersion)
    [] incrementType = "minor" -> incrementMinor(currentVersion)
    [] incrementType = "major" -> incrementMajor(currentVersion)

(***************************************************************************)
(* The backend collaborator, as the client sees it.                        *)
(***************************************************************************)
\* fetchBuilds asks for one page: limit: filters.limit || 10
DEFAULT_BUILD_LIMIT == 10

SetMax(S) == CHOOSE m \in S : \A x \in S : x <= m

SetMin(S) == CHOOSE m \in S : \A x \in S : m <= x

RECURSIVE Descending(_)
Descending(S) ==
  IF S = {} THEN << >> ELSE <<SetMax(S)>> \o Descending(S \ {SetMax(S)})

RECURSIVE Ascending(_)
Ascending(S) ==
  IF S = {} THEN << >> ELSE <<SetMin(S)>> \o Ascending(S \ {SetMin(S)})

Page(seq, limit) ==
  SubSeq(seq, 1, IF Len(seq) < limit THEN Len(seq) ELSE limit)

\* GET /builds without the sort parameter: the page comes in upload order.
fetchBuildsUnsorted(uploaded) ==
  LET page == Page(Ascending(uploaded), DEFAULT_BUILD_LIMIT)
  IN [i \in 1..Len(page) |-> ParseInt(ToDigits(page[i]))]

\* GET /builds?filter[app]=appId&sort=-version&limit=10, each answered
\* build's attributes.version parsed into a BuildNumber.
fetchBuilds(uploaded) ==
  LET page == Page(Descending(uploaded), DEFAULT_BUILD_LIMIT)
  IN [i \in 1..Len(page) |-> ParseInt(ToDigits(page[i]))]

\* A release as the backend sends it.
\* Its build relationship names a build only for a released version.
ReleaseResource(id, versionString, state, plat) ==
  [id |-> id, versionString |-> versionString, appStoreState |-> state,
   platform |-> plat,
   build |-> IF state = "READY_FOR_SALE" THEN Some(ToDigits(1)) ELSE None]

\* A record built with the build its response names.
createFromApiResponseWithBuild(response) ==
  AppStoreVersion(response.id, SemanticVersion(response.versionString),
                  IF IsSome(response.build) THEN ParseInt(Get(response.build)) ELSE 0,
                  response.appStoreState, response.platform)

\* AppStoreVersion.createFromApiResponse: buildNumber: 0
createFromApiResponse(response) ==
  AppStoreVersion(response.id, SemanticVersion(response.versionString), 0,
                  response.appStoreState, response.platform)

Orderings(S) ==
  { f \in [1..Cardinality(S) -> S] : \A i, j \in 1..Cardinality(S) : f[i] = f[j] => i = j }

\* What GET /apps/{id}/appStoreVersions may answer for a filter: the
\* releases that match it, possibly with others, in any order.
VersionListAnswers(matching) ==
  UNION { Orderings(S) : S \in { T \in SUBSET releases : matching \subseteq T } }

\* fetchAppStoreVersions: versions.map(createFromApiResponse)
fetchAppStoreVersions(answer) ==
  [i \in 1..Len(answer) |-> createFromApiResponse(answer[i])]

(***************************************************************************)
(* AppVersionService.                                                      *)
(***************************************************************************)
LIVE_VERSION_NOT_FOUND == "LIVE_VERSION_NOT_FOUND"

INCONSISTENT_DATA_STATE == "INCONSISTENT_DATA_STATE"

API_ERROR == "API_ERROR"

_createVersionWithBuildNumber(version, buildNumber) ==
  AppStoreVersion(version.id, version.version, buildNumber, version.state,
                  version.platform)

RECURSIVE ReduceMax(_, _)
ReduceMax(allBuilds, max) ==
  IF Len(allBuilds) = 0 THEN max
  ELSE ReduceMax(Tail(allBuilds),
                 IF BuildNumberIsGreaterThan(Head(allBuilds), max)
                   THEN Head(allBuilds) ELSE max)

\* A floor taken from the live release's build alone.
findMaximumBuildNumberLiveOnly(allBuilds, default) == default

findMaximumBuildNumber(allBuilds, default) ==
  IF Len(allBuilds) = 0 THEN default ELSE ReduceMax(allBuilds, default)

RECURSIVE Filter(_, _)
Filter(seq, state) ==
  IF Len(seq) = 0 THEN << >>
  ELSE (IF Head(seq).state = state THEN <<Head(seq)>> ELSE << >>)
       \o Filter(Tail(seq), state)

\* Array.prototype.sort with (a, b) => b.version.compareTo(a.version):
\* descending by version, equal versions keeping their order.
RECURSIVE InsertDescending(_, _)
InsertDescending(sorted, x) ==
  IF Len(sorted) = 0 THEN <<x>>
  ELSE IF VersionCompareTo(x.version, Head(sorted).version) > 0
         THEN <<x>> \o sorted
         ELSE <<Head(sorted)>> \o InsertDescending(Tail(sorted), x)

\* The releases left in the order of the answer.
KeepOrder(seq) == seq

RECURSIVE SortDescending(_)
SortDescending(seq) ==
  IF Len(seq) = 0 THEN << >>
  ELSE InsertDescending(SortDescending(SubSeq(seq, 1, Len(seq) - 1)), seq[Len(seq)])

\* The choice of the live release without the READY_FOR_SALE filter.
selectLiveVersionUnfiltered(versions) ==
  IF Len(versions) = 0
    THEN Thrown(LIVE_VERSION_NOT_FOUND, "",
                "No live version found for app. This action requires a published app.")
    ELSE [ok |-> TRUE, version |-> SortDescending(versions)[1]]

\* The first part of fetchLiveVersion: the record chosen as live, or the
\* error thrown.
selectLiveVersion(versions) ==
  LET readyForSaleVersions == Filter(versions, "READY_FOR_SALE")
  IN IF Len(versions) = 0 \/ Len(readyForSaleVersions) = 0
       THEN Thrown(LIVE_VERSION_NOT_FOUND, "",
                   "No live version found for app. This action requires a published app.")
       ELSE [ok |-> TRUE, version |-> SortDescending(readyForSaleVersions)[1]]

\* _fetchVersionBuildNumber without its READY_FOR_SALE check.
_fetchVersionBuildNumberUnchecked(version, buildNumber) ==
  [ok |-> TRUE, buildNumber |-> buildNumber]

\* The check applied to every state but READY_FOR_SALE.
_fetchVersionBuildNumberUnlessLive(version, buildNumber) ==
  IF version.state # "READY_FOR_SALE" /\ buildNumber = 0
    THEN Thrown(INCONSISTENT_DATA_STATE, "", "version has no associated build")
    ELSE [ok |-> TRUE, buildNumber |-> buildNumber]

\* _fetchVersionBuildNumber, given what the build endpoint answered.
_fetchVersionBuildNumber(version, buildNumber) ==
  IF version.state = "READY_FOR_SALE" /\ buildNumber = 0
    THEN Thrown(INCONSISTENT_DATA_STATE, "",
                "READY_FOR_SALE version has no associated build. This indicates a data inconsistency in App Store Connect.")
    ELSE [ok |-> TRUE, buildNumber |-> buildNumber]

\* The first release of the answer, whatever its version.
findFirst(versions, versionString) ==
  IF Len(versions) = 0 THEN None ELSE Some(Head(versions))

\* versions.find((v) => v.version.toString() === versionString)
RECURSIVE find(_, _)
find(versions, versionString) ==
  IF Len(versions) = 0 THEN None
  ELSE IF VersionToString(Head(versions).version) = versionString
         THEN Some(Head(versions))
         ELSE find(Tail(versions), versionString)

\* findVersionByString: the first exact match, with build number 0.
findVersionByString(versions, versionString) ==
  LET exactMatch == find(versions, versionString)
  IN IF IsSome(exactMatch)
       THEN Some(_createVersionWithBuildNumber(Get(exactMatch), 0))
       ELSE None

(***************************************************************************)
(* Release records as objects: heap[ref] is the record object ref denotes. *)
(***************************************************************************)
\* new AppStoreVersion(...), createFromApiResponse: a fresh object
Allocate(h, record) == Append(h, record)

\* liveVersion.buildNumber = buildNumber, as the earlier use case attached
\* it (unnamed/part_015:151-152): the object itself is written.
attachBuildNumberInPlace(h, ref, buildNumber) ==
  [h EXCEPT ![ref] = _createVersionWithBuildNumber(h[ref], buildNumber)]

\* _createVersionWithBuildNumber and the use case's new AppStoreVersion({...}):
\* the fields of the object ref denotes copied into a fresh object.
attachBuildNumber(h, ref, buildNumber) ==
  Allocate(h, _createVersionWithBuildNumber(h[ref], buildNumber))

(***************************************************************************)
(* SpecMaxBuild: findMaximumBuildNumber(appId, defaultBuildNumber) against *)
(* every set of uploaded builds.                                           *)
(***************************************************************************)
MaxBuildInit ==
  /\ maxPc = "ready"
  /\ builds \in SUBSET (1..MaxBuild)
  /\ defaultBuildNumber \in 0..MaxBuild
  /\ maximumOut = None
  /\ releases = {}
  /\ EngineIdle /\ ResolverIdle /\ RunIdle /\ ValueIdle /\ OrderIdle /\ CallIdle

FindMaximum ==
  /\ maxPc = "ready"
  /\ maximumOut' = Some(findMaximumBuildNumber(fetchBuilds(builds), defaultBuildNumber))
  /\ maxPc' = "done"
  /\ UNCHANGED <<defaultBuildNumber, backendVars, engineVars, resolverVars, runVars, valueVars, orderVars, callVars>>

\* fetchBuilds rejects: the error leaves findMaximumBuildNumber uncaught.
FindMaximumRejected ==
  /\ maxPc = "ready"
  /\ maxPc' = "failed"
  /\ UNCHANGED <<maximumOut, defaultBuildNumber, backendVars, engineVars,
                 resolverVars, runVars, valueVars, orderVars, callVars>>

MaxBuildNext == FindMaximum \/ FindMaximumRejected

SpecMaxBuild == MaxBuildInit /\ [][MaxBuildNext]_vars

\* C10: findMaximumBuildNumber(appId, default) is the maximum over all the
\* builds uploaded for the application and the default, not over a part of
\* them; it equals the default only when no uploaded build exceeds it.
C10_GlobalMaximum ==
  maxPc = "done" =>
    /\ \A b \in builds : Get(maximumOut) >= b
    /\ Get(maximumOut) >= defaultBuildNumber
    /\ Get(maximumOut) \in builds \cup {defaultBuildNumber}
    /\ (Get(maximumOut) = defaultBuildNumber <=>
         \A b \in builds : b <= defaultBuildNumber)

C10_Witness ==
  /\ maxPc = "done"
  /\ Cardinality(builds) > 10
  /\ defaultBuildNumber = 3
  /\ maximumOut = Some(11)

(***************************************************************************)
(* Spec: one run of determineNextVersion against a backend that holds the  *)
(* application's releases and uploaded builds.  Every backend call may be  *)
(* rejected; list queries answer the matching releases, possibly with      *)
(* others, in any order.                                                   *)
(***************************************************************************)
LiveReleases ==
  { ReleaseResource("v-100", VersionString(1, 0, 0), "READY_FOR_SALE", "IOS"),
    ReleaseResource("v-110", VersionString(1, 1, 0), "READY_FOR_SALE", "IOS") }

OtherReleases ==
  { ReleaseResource("v-other", vs, st, "IOS") :
      vs \in {VersionString(1, 0, 1), VersionString(1, 1, 1), VersionString(1, 0, 11)},
      st \in BackendStates }

\* A release's build linkage: no build, or one of the uploaded builds (the
\* oldest or the newest), as the decimal string of its counter.
LinkAnswers ==
  {None} \cup
  { Some(ToDigits(b)) : b \in { x \in builds : x = SetMin(builds) \/ x = SetMax(builds) } }

\* fetchBuildNumberForVersion, given what /appStoreVersions/{id}/build answered
fetchBuildNumberForVersion(answer) ==
  IF ~IsSome(answer) THEN 0 ELSE ParseInt(Get(answer))

Call(op, arg, answer) == [op |-> op, arg |-> arg, answer |-> answer]

Rejected == Thrown(API_ERROR, "0", "Network error")

NoAppFound == Thrown(API_ERROR, "404", "No app found with bundle ID")

\* A result whose build number is derived again from the live release.
ExecuteResultFromLive(application, live, next, action, created) ==
  [app |-> application,
   liveVersion |-> VersionToString(live.version),
   liveBuildNumber |-> live.buildNumber,
   version |-> VersionToString(next),
   buildNumber |-> ToDigits(live.buildNumber + 1),
   action |-> action.action,
   versionCreated |-> created]

\* Step 8: the result object
ExecuteResult(application, live, next, action, created) ==
  [app |-> application,
   liveVersion |-> VersionToString(live.version),
   liveBuildNumber |-> live.buildNumber,
   version |-> VersionToString(next),
   buildNumber |-> IF IsSome(action.buildNumber)
                     THEN ToDigits(Get(action.buildNumber)) ELSE << >>,
   action |-> action.action,
   versionCreated |-> created]

Init ==
  /\ pc = "findApp"
  /\ builds \in { 1..n : n \in {0, 2, MaxBuild - 1, MaxBuild} }
  /\ releases \in { L \cup O : L \in SUBSET LiveReleases,
                                O \in {{}} \cup { {o} : o \in OtherReleases } }
  /\ createNewVersion \in BOOLEAN
  /\ platform \in {"IOS", "MAC_OS"}
  /\ app = None
  /\ liveVersion = None
  /\ nextVersion = None
  /\ existingNextVersion = None
  /\ maxUploadedBuild = None
  /\ actionResult = None
  /\ versionCreated = FALSE
  /\ result = None
  /\ error = None
  /\ calls = << >>
  /\ heap = << >>
  /\ EngineIdle /\ ResolverIdle /\ MaxIdle /\ ValueIdle /\ OrderIdle /\ CallIdle

\* Step 1: findApplicationByBundleId
FindApplication ==
  /\ pc = "findApp"
  /\ \/ /\ app' = Some([id |-> "app-1", bundleId |-> "com.example.app"])
        /\ calls' = Append(calls, Call("findApplicationByBundleId", "com.example.app", Some(1)))
        /\ pc' = "fetchLive"
        /\ error' = error
     \/ /\ calls' = Append(calls, Call("findApplicationByBundleId", "com.example.app", Some(0)))
        /\ pc' = "failed"
        /\ error' = Some(NoAppFound)
        /\ app' = app
     \/ /\ calls' = Append(calls, Call("findApplicationByBundleId", "com.example.app", None))
        /\ pc' = "failed"
        /\ error' = Some(Rejected)
        /\ app' = app
  /\ UNCHANGED <<createNewVersion, platform, liveVersion, nextVersion,
                 existingNextVersion, maxUploadedBuild, actionResult,
                 versionCreated, result, heap>>
  /\ UNCHANGED <<backendVars, engineVars, resolverVars, maxVars, valueVars, orderVars, callVars>>

\* Step 2, first call: fetchLiveVersion up to the choice of the live release
FetchLiveVersion ==
  /\ pc = "fetchLive"
  /\ \/ \E answer \in VersionListAnswers({ r \in releases : r.appStoreState = "READY_FOR_SALE" }) :
          LET selected == selectLiveVersion(fetchAppStoreVersions(answer))
          IN /\ calls' = Append(calls, Call("fetchAppStoreVersions", "filter[appStoreState]",
                                            Some(Len(answer))))
             /\ IF selected.ok
                  THEN /\ liveVersion' = Some(selected.version)
                       /\ heap' = Allocate(heap, selected.version)
                       /\ pc' = "fetchLiveBuild"
                       /\ error' = error
                  ELSE /\ UNCHANGED <<liveVersion, heap>>
                       /\ pc' = "failed"
                       /\ error' = Some(selected)
     \/ /\ calls' = Append(calls, Call("fetchAppStoreVersions", "filter[appStoreState]", None))
        /\ pc' = "failed"
        /\ error' = Some(Rejected)
        /\ UNCHANGED <<liveVersion, heap>>
  /\ UNCHANGED <<createNewVersion, platform, app, nextVersion,
                 existingNextVersion, maxUploadedBuild, actionResult,
                 versionCreated, result>>
  /\ UNCHANGED <<backendVars, engineVars, resolverVars, maxVars, valueVars, orderVars, callVars>>

\* Step 2, second call, and step 3: the live release's build number, then
\* the next version
FetchLiveBuildNumber ==
  /\ pc = "fetchLiveBuild"
  /\ \/ \E answer \in LinkAnswers :
          LET live == Get(liveVersion)
              fetched == _fetchVersionBuildNumber(live, fetchBuildNumberForVersion(answer))
          IN /\ calls' = Append(calls, Call("fetchBuildNumberForVersion", live.id,
                                            Some(fetchBuildNumberForVersion(answer))))
             /\ IF fetched.ok
                  THEN /\ liveVersion' = Some(_createVersionWithBuildNumber(live, fetched.buildNumber))
                       /\ heap' = attachBuildNumber(heap, Len(heap), fetched.buildNumber)
                       /\ nextVersion' = Some(calculateNextSemanticVersion(live.version, "patch"))
                       /\ pc' = "findVersion"
                       /\ error' = error
                  ELSE /\ UNCHANGED <<liveVersion, nextVersion, heap>>
                       /\ pc' = "failed"
                       /\ error' = Some(fetched)
     \/ /\ calls' = Append(calls, Call("fetchBuildNumberForVersion", Get(liveVersion).id, None))
        /\ pc' = "failed"
        /\ error' = Some(Rejected)
        /\ UNCHANGED <<liveVersion, nextVersion, heap>>
  /\ UNCHANGED <<createNewVersion, platform, app, existingNextVersion,
                 maxUploadedBuild, actionResult, versionCreated, result>>
  /\ UNCHANGED <<backendVars, engineVars, resolverVars, maxVars, valueVars, orderVars, callVars>>

\* Step 4: findVersionByString
FindVersion ==
  /\ pc = "findVersion"
  /\ LET versionString == VersionToString(Get(nextVersion))
     IN \/ \E answer \in VersionListAnswers({ r \in releases : r.versionString = versionString }) :
             /\ existingNextVersion' =
                  findVersionByString(fetchAppStoreVersions(answer), versionString)
             /\ heap' =
                  LET exactMatch == find(fetchAppStoreVersions(answer), versionString)
                  IN IF IsSome(exactMatch)
                       THEN attachBuildNumber(Allocate(heap, Get(exactMatch)),
                                              Len(heap) + 1, 0)
                       ELSE heap
             /\ calls' = Append(calls, Call("fetchAppStoreVersions", "filter[versionString]",
                                            Some(Len(answer))))
             /\ pc' = "findMaxBuild"
             /\ error' = error
        \/ /\ calls' = Append(calls, Call("fetchAppStoreVersions", "filter[versionString]", None))
           /\ pc' = "failed"
           /\ error' = Some(Rejected)
           /\ UNCHANGED <<existingNextVersion, heap>>
  /\ UNCHANGED <<createNewVersion, platform, app, liveVersion, nextVersion,
                 maxUploadedBuild, actionResult, versionCreated, result>>
  /\ UNCHANGED <<backendVars, engineVars, resolverVars, maxVars, valueVars, orderVars, callVars>>

\* Step 5: findMaximumBuildNumber(app.id, liveVersion.buildNumber)
FindMaximumBuild ==
  /\ pc = "findMaxBuild"
  /\ \/ /\ maxUploadedBuild' =
             Some(findMaximumBuildNumber(fetchBuilds(builds), Get(liveVersion).buildNumber))
        /\ calls' = Append(calls, Call("fetchBuilds", Get(app).id,
                                       Some(Len(fetchBuilds(builds)))))
        /\ pc' = "determine"
        /\ error' = error
     \/ /\ calls' = Append(calls, Call("fetchBuilds", Get(app).id, None))
        /\ pc' = "failed"
        /\ error' = Some(Rejected)
        /\ maxUploadedBuild' = maxUploadedBuild
  /\ UNCHANGED <<createNewVersion, platform, app, liveVersion, nextVersion,
                 existingNextVersion, actionResult, versionCreated, result, heap>>
  /\ UNCHANGED <<backendVars, engineVars, resolverVars, maxVars, valueVars, orderVars, callVars>>

\* Step 7 entered for every new version, whatever the caller's flag.
DecidedIgnoringFlag(decision) ==
  IF ~decision.ok
    THEN /\ pc' = "failed"
         /\ error' = Some(decision)
         /\ UNCHANGED <<actionResult, result>>
    ELSE /\ actionResult' = Some(decision)
         /\ error' = error
         /\ IF decision.action = CREATE_NEW_VERSION
              THEN /\ pc' = "create"
                   /\ result' = result
              ELSE /\ pc' = "done"
                   /\ result' = Some(ExecuteResult(Get(app), Get(liveVersion),
                                                   Get(nextVersion), decision, FALSE))

\* The engine's error caught and turned into a skip result.
DecidedSwallowingError(decision) ==
  IF ~decision.ok
    THEN /\ pc' = "done"
         /\ error' = error
         /\ actionResult' = Some(Returned(SKIP, None, FALSE))
         /\ result' = Some(ExecuteResult(Get(app), Get(liveVersion), Get(nextVersion),
                                         Returned(SKIP, None, FALSE), FALSE))
    ELSE /\ actionResult' = Some(decision)
         /\ error' = error
         /\ IF decision.action = CREATE_NEW_VERSION /\ createNewVersion
              THEN /\ pc' = "create"
                   /\ result' = result
              ELSE /\ pc' = "done"
                   /\ result' = Some(ExecuteResult(Get(app), Get(liveVersion),
                                                   Get(nextVersion), decision, FALSE))

\* What follows a decision: the thrown error ends the run, a new version
\* that is to be created goes on to step 7, everything else returns.
Decided(decision) ==
  IF ~decision.ok
    THEN /\ pc' = "failed"
         /\ error' = Some(decision)
         /\ UNCHANGED <<actionResult, result>>
    ELSE /\ actionResult' = Some(decision)
         /\ error' = error
         /\ IF decision.action = CREATE_NEW_VERSION /\ createNewVersion
              THEN /\ pc' = "create"
                   /\ result' = result
              ELSE /\ pc' = "done"
                   /\ result' = Some(ExecuteResult(Get(app), Get(liveVersion),
                                                   Get(nextVersion), decision, FALSE))

\* Step 6 when the next version does not exist yet
DetermineActionForNewVersion ==
  /\ pc = "determine"
  /\ ~IsSome(existingNextVersion)
  /\ Decided(determineVersionAction(None, Get(maxUploadedBuild)))
  /\ UNCHANGED <<createNewVersion, platform, app, liveVersion, nextVersion,
                 existingNextVersion, maxUploadedBuild, versionCreated, calls,
                 heap>>
  /\ UNCHANGED <<backendVars, engineVars, resolverVars, maxVars, valueVars, orderVars, callVars>>

\* Step 6 when the next version exists: its build number is fetched first
DetermineActionForExistingVersion ==
  /\ pc = "determine"
  /\ IsSome(existingNextVersion)
  /\ LET existing == Get(existingNextVersion)
     IN \/ \E answer \in LinkAnswers :
             LET existingBuildNumber == fetchBuildNumberForVersion(answer)
                 withBuild == AppStoreVersion(existing.id, existing.version,
                                              existingBuildNumber, existing.state,
                                              existing.platform)
             IN /\ existingNextVersion' = Some(withBuild)
                /\ heap' = attachBuildNumber(heap, Len(heap), existingBuildNumber)
                /\ calls' = Append(calls, Call("fetchBuildNumberForVersion", existing.id,
                                               Some(existingBuildNumber)))
                /\ Decided(determineVersionAction(Some(withBuild), Get(maxUploadedBuild)))
        \/ /\ calls' = Append(calls, Call("fetchBuildNumberForVersion", existing.id, None))
           /\ pc' = "failed"
           /\ error' = Some(Rejected)
           /\ UNCHANGED <<existingNextVersion, actionResult, result, heap>>
  /\ UNCHANGED <<createNewVersion, platform, app, liveVersion, nextVersion,
                 maxUploadedBuild, versionCreated>>
  /\ UNCHANGED <<backendVars, engineVars, resolverVars, maxVars, valueVars, orderVars, callVars>>

\* Step 7 with the platform fixed to IOS and the release of that version
\* string written over.
CreateNewVersionOverwriting ==
  /\ pc = "create"
  /\ releases' = { r \in releases : r.platform # "IOS" } \cup
                 { ReleaseResource("v-new", VersionToString(Get(nextVersion)),
                                   "PREPARE_FOR_SUBMISSION", "IOS") }
  /\ calls' = Append(calls, Call("createNewAppStoreVersion", "IOS", Some(1)))
  /\ versionCreated' = TRUE
  /\ result' = Some(ExecuteResult(Get(app), Get(liveVersion), Get(nextVersion),
                                  Get(actionResult), TRUE))
  /\ pc' = "done"
  /\ error' = error
  /\ UNCHANGED <<createNewVersion, platform, app, liveVersion, nextVersion,
                 existingNextVersion, maxUploadedBuild, actionResult, builds,
                 heap>>
  /\ UNCHANGED <<engineVars, resolverVars, maxVars, valueVars, orderVars, callVars>>

\* Step 7: createNewAppStoreVersion, then the result
CreateNewVersion ==
  /\ pc = "create"
  /\ \/ /\ releases' = releases \cup
                         { ReleaseResource("v-new", VersionToString(Get(nextVersion)),
                                           "PREPARE_FOR_SUBMISSION", platform) }
        /\ calls' = Append(calls, Call("createNewAppStoreVersion", platform, Some(1)))
        /\ versionCreated' = TRUE
        /\ result' = Some(ExecuteResult(Get(app), Get(liveVersion), Get(nextVersion),
                                        Get(actionResult), TRUE))
        /\ pc' = "done"
        /\ error' = error
     \/ /\ calls' = Append(calls, Call("createNewAppStoreVersion", platform, None))
        /\ pc' = "failed"
        /\ error' = Some(Rejected)
        /\ UNCHANGED <<releases, versionCreated, result>>
  /\ UNCHANGED <<createNewVersion, platform, app, liveVersion, nextVersion,
                 existingNextVersion, maxUploadedBuild, actionResult, builds,
                 heap>>
  /\ UNCHANGED <<engineVars, resolverVars, maxVars, valueVars, orderVars, callVars>>

Next ==
  \/ FindApplication
  \/ FetchLiveVersion
  \/ FetchLiveBuildNumber
  \/ FindVersion
  \/ FindMaximumBuild
  \/ DetermineActionForNewVersion
  \/ DetermineActionForExistingVersion
  \/ CreateNewVersion

Spec == Init /\ [][Next]_vars

(***************************************************************************)
(* Claims about a whole run.                                               *)
(***************************************************************************)
\* C1: in every successful run the emitted build number is strictly greater
\* than every build counter uploaded for the application, whatever the
\* candidate release's own build linkage answered (stale, or none).
C1_BuildNumberNeverReused ==
  pc = "done" =>
    /\ IsSome(result)
    /\ Get(result).buildNumber # << >>
    /\ \A b \in builds : ParseInt(Get(result).buildNumber) > b

C1_Witness ==
  /\ pc = "done"
  /\ Cardinality(builds) > DEFAULT_BUILD_LIMIT
  /\ IsSome(existingNextVersion)
  /\ Get(existingNextVersion).buildNumber = SetMin(builds)
  /\ Get(result).action = INCREMENT_BUILD_NUMBER
  /\ ParseInt(Get(result).buildNumber) = SetMax(builds) + 1

\* C5: when the build endpoint answers 0 for the live READY_FOR_SALE
\* release, the run fails with INCONSISTENT_DATA_STATE and no later step
\* runs; a run past step 2 has a live build number above 0.
C5_LiveBuildZeroFails ==
  /\ (/\ Len(calls) >= 3
      /\ calls[3].op = "fetchBuildNumberForVersion"
      /\ calls[3].answer = Some(0))
       => /\ pc = "failed"
          /\ Get(error).code = INCONSISTENT_DATA_STATE
          /\ Len(calls) = 3
          /\ nextVersion = None
          /\ maxUploadedBuild = None
          /\ actionResult = None
          /\ result = None
  /\ pc \in {"findVersion", "findMaxBuild", "determine", "create", "done"}
       => Get(liveVersion).buildNumber > 0

C5_Witness ==
  /\ pc = "failed"
  /\ Len(calls) = 3
  /\ calls[3] = Call("fetchBuildNumberForVersion", "v-110", Some(0))
  /\ Get(liveVersion).state = "READY_FOR_SALE"
  /\ Get(error).code = INCONSISTENT_DATA_STATE

NoReadyForSaleRelease == \A r \in releases : r.appStoreState # "READY_FOR_SALE"

CreateCalls == { i \in 1..Len(calls) : calls[i].op = "createNewAppStoreVersion" }

\* C11: createNewAppStoreVersion is called if and only if the decided action
\* is new_version and the caller's createNewVersion flag is true; it is
\* called at most once, never for increment_build and never in a run that
\* failed before step 7; versionCreated is true exactly when the call was
\* made and succeeded, and the result reports it.
C11_CreateIffNewVersionAndFlag ==
  /\ CreateCalls # {} =>
       /\ IsSome(actionResult)
       /\ Get(actionResult).action = CREATE_NEW_VERSION
       /\ createNewVersion
       /\ CreateCalls = {Len(calls)}
       /\ pc \in {"done", "failed"}
  /\ (/\ pc = "done"
      /\ Get(actionResult).action = CREATE_NEW_VERSION
      /\ createNewVersion) => CreateCalls # {}
  /\ versionCreated <=> \E i \in CreateCalls : IsSome(calls[i].answer)
  /\ pc = "done" => Get(result).versionCreated = versionCreated
  /\ pc = "failed" => ~versionCreated /\ result = None

C11_Witness ==
  /\ pc = "done"
  /\ createNewVersion
  /\ Get(result).action = CREATE_NEW_VERSION
  /\ Get(result).versionCreated
  /\ CreateCalls = {Len(calls)}
  /\ Cardinality(releases) = 2

\* C12: a failure of findApplicationByBundleId, of fetchLiveVersion or of the
\* decision engine ends the run with exactly that error; a failed run has no
\* result and has created no release.
C12_NoPartialSuccess ==
  /\ pc = "failed" =>
       /\ IsSome(error)
       /\ result = None
       /\ ~versionCreated
       /\ \A r \in releases : r.id # "v-new"
  /\ (Len(calls) >= 1 /\ calls[1].answer # Some(1)) =>
       /\ pc = "failed"
       /\ Len(calls) = 1
       /\ error = Some(IF IsSome(calls[1].answer) THEN NoAppFound ELSE Rejected)
  /\ (Len(calls) >= 2 /\ ~IsSome(calls[2].answer)) =>
       /\ pc = "failed"
       /\ Len(calls) = 2
       /\ error = Some(Rejected)
  /\ (Len(calls) >= 2 /\ IsSome(calls[2].answer) /\ ~IsSome(liveVersion)) =>
       /\ pc = "failed"
       /\ Get(error).code = LIVE_VERSION_NOT_FOUND
  /\ (Len(calls) >= 3 /\ ~IsSome(calls[3].answer)) =>
       /\ pc = "failed"
       /\ Len(calls) = 3
       /\ error = Some(Rejected)
  /\ (/\ Len(calls) >= 6
      /\ calls[6].op = "fetchBuildNumberForVersion"
      /\ IsSome(calls[6].answer)
      /\ ~canIncrementBuildNumber(Get(existingNextVersion))) =>
       /\ pc = "failed"
       /\ Len(calls) = 6
       /\ error = Some(_createVersionStateError(Get(existingNextVersion)))

C12_Witness ==
  /\ pc = "failed"
  /\ Len(calls) = 6
  /\ IsSome(calls[6].answer)
  /\ Get(existingNextVersion).state = "PENDING_CONTRACT"
  /\ Get(error).code = VERSION_INCREMENT_NOT_ALLOWED
  /\ Get(error).details = "PENDING_CONTRACT"
  /\ result = None

ClaimedIncrementableStates ==
  {"PREPARE_FOR_SUBMISSION", "WAITING_FOR_REVIEW", "IN_REVIEW", "REJECTED",
   "DEVELOPER_REJECTED", "METADATA_REJECTED", "INVALID_BINARY",
   "PENDING_DEVELOPER_RELEASE", "DEVELOPER_REMOVED_FROM_SALE"}

C15_ReleasesOnlyAppended ==
  [][/\ builds' = builds
     /\ releases \subseteq releases'
     /\ versionCreated => (versionCreated' /\ releases' = releases)
     /\ releases' # releases =>
          /\ versionCreated'
          /\ \E r \in releases' \ releases :
               /\ releases' = releases \cup {r}
               /\ r.versionString = VersionToString(Get(nextVersion))
               /\ r.platform = platform
               /\ \A old \in releases : old.versionString # r.versionString]_vars

C15_Witness ==
  /\ pc = "done"
  /\ versionCreated
  /\ platform = "MAC_OS"
  /\ Cardinality(releases) = 4
  /\ \E r \in releases :
       /\ r.id = "v-new"
       /\ r.platform = "MAC_OS"
       /\ r.versionString = VersionString(1, 1, 1)

\* C16: the candidate version of a run is the live READY_FOR_SALE version
\* with patch + 1 and the same major and minor; the run, which passes no
\* increment mode, never takes a minor or major increment, and the result
\* reports that version.
C16_CandidateIsPatchIncrement ==
  /\ IsSome(nextVersion) =>
       /\ IsSome(liveVersion)
       /\ Get(liveVersion).state = "READY_FOR_SALE"
       /\ Get(nextVersion).major = Get(liveVersion).version.major
       /\ Get(nextVersion).minor = Get(liveVersion).version.minor
       /\ Get(nextVersion).patch = Get(liveVersion).version.patch + 1
  /\ pc = "done" =>
       /\ IsSome(nextVersion)
       /\ Get(result).version = VersionToString(Get(nextVersion))
       /\ Get(result).liveVersion = VersionToString(Get(liveVersion).version)

C16_Witness ==
  /\ pc = "done"
  /\ Get(liveVersion).version = SemanticVersion(VersionString(1, 1, 0))
  /\ Get(nextVersion) = SemanticVersion(VersionString(1, 1, 1))
  /\ Get(result).version = VersionString(1, 1, 1)

\* C17: a release record constructed from a backend query result has build
\* counter 0 whatever the response holds, and so has the candidate that
\* findVersionByString returns; a counter above 0 is on a record only when a
\* fetchBuildNumberForVersion call for that release answered it.
C17_QueryResultHasBuildZero ==
  /\ Len(heap) >= 1 => heap[1].buildNumber = 0
  /\ Len(heap) >= 4 => heap[3].buildNumber = 0 /\ heap[4].buildNumber = 0
  /\ (pc \in {"findMaxBuild", "determine"} /\ IsSome(existingNextVersion)) =>
       Get(existingNextVersion).buildNumber = 0
  /\ \A ref \in 1..Len(heap) :
       heap[ref].buildNumber > 0 =>
         \E i \in 1..Len(calls) :
           calls[i] = Call("fetchBuildNumberForVersion", heap[ref].id,
                           Some(heap[ref].buildNumber))

C17_Witness ==
  /\ pc = "determine"
  /\ Len(heap) = 4
  /\ heap[1].state = "READY_FOR_SALE"
  /\ heap[1].buildNumber = 0
  /\ heap[2].buildNumber > 0
  /\ heap[4] = Get(existingNextVersion)
  /\ heap[4].buildNumber = 0

\* C24: when the candidate release exists and the direct build lookup for it
\* fails, the failure does not reach the caller: the run goes on with the
\* candidate's counter from another source, or 0, and produces a decision.
C24_CandidateLookupFailureAbsorbed ==
  (/\ Len(calls) >= 6
   /\ calls[6].op = "fetchBuildNumberForVersion"
   /\ calls[6].answer = None)
    => /\ pc # "failed"
       /\ error = None
       /\ IsSome(actionResult)

C28_LiveIsHighestReadyForSale ==
  IsSome(liveVersion) =>
    LET live == Get(liveVersion)
    IN /\ live.state = "READY_FOR_SALE"
       /\ \E r \in releases :
            /\ r.id = live.id
            /\ r.appStoreState = "READY_FOR_SALE"
            /\ SemanticVersion(r.versionString) = live.version
       /\ \A r \in releases :
            r.appStoreState = "READY_FOR_SALE" =>
              VersionCompareTo(live.version, SemanticVersion(r.versionString)) >= 0

C28_Witness ==
  /\ pc = "fetchLiveBuild"
  /\ Get(liveVersion).id = "v-110"
  /\ releases = LiveReleases \cup
                  { ReleaseResource("v-other", VersionString(1, 0, 11), "READY_FOR_SALE", "IOS") }
  /\ calls[2] = Call("fetchAppStoreVersions", "filter[appStoreState]", Some(3))

\* C29: in every successful run the emitted build number is strictly
\* greater than the live release's build counter and strictly greater than
\* the candidate release's own resolved build counter.
C29_EmittedAboveLiveAndCandidate ==
  pc = "done" =>
    LET emitted == ParseInt(Get(result).buildNumber)
    IN /\ Get(result).buildNumber # << >>
       /\ emitted > Get(liveVersion).buildNumber
       /\ emitted > Get(result).liveBuildNumber
       /\ IsSome(existingNextVersion) =>
            emitted > Get(existingNextVersion).buildNumber

C29_Witness ==
  /\ pc = "done"
  /\ Get(liveVersion).buildNumber = 1
  /\ IsSome(existingNextVersion)
  /\ Get(existingNextVersion).buildNumber = MaxBuild
  /\ Get(result).buildNumber = ToDigits(MaxBuild + 1)
  /\ Get(result).action = INCREMENT_BUILD_NUMBER

LiveBuildResolvedToZero(history) ==
  /\ Len(history) >= 3
  /\ history[3].op = "fetchBuildNumberForVersion"
  /\ history[3].answer = Some(0)

\* C30: when the build counter of the live READY_FOR_SALE release resolves
\* to 0, the step that learns it ends the run as failed, with no candidate
\* lookup, no build listing and no create-release call issued before it, and
\* no call is issued and no release is created afterwards.
C30_FailsBeforeLaterCalls ==
  [][/\ LiveBuildResolvedToZero(calls') =>
          /\ pc' = "failed"
          /\ Get(liveVersion').state = "READY_FOR_SALE"
          /\ \A i \in 1..Len(calls') :
               /\ calls'[i].op \notin {"fetchBuilds", "createNewAppStoreVersion"}
               /\ calls'[i].arg # "filter[versionString]"
          /\ releases' = releases
     /\ LiveBuildResolvedToZero(calls) =>
          /\ calls' = calls
          /\ releases' = releases
          /\ pc' = "failed"]_vars

C30_Witness ==
  /\ pc = "failed"
  /\ LiveBuildResolvedToZero(calls)
  /\ Get(liveVersion).id = "v-100"
  /\ createNewVersion
  /\ ReleaseResource("v-other", VersionString(1, 0, 1), "PREPARE_FOR_SUBMISSION", "IOS")
       \in releases
  /\ builds # {}

(***************************************************************************)
(* SpecValues: the value objects applied to every bounded input: a version *)
(* string parsed, printed and incremented; a build number incremented.     *)
(***************************************************************************)
\* SEMANTIC_VERSION_PATTERN.test(trimmed): three non-empty runs of digits
SEMANTIC_VERSION_PATTERN(s) ==
  /\ Len(s) = 3
  /\ \A i \in 1..3 : Len(s[i]) >= 1

VersionInputs ==
  { <<a, b, c>> : a \in BuildStrings \cup {<< >>}, b \in BuildStrings,
                  c \in BuildStrings \cup {<< >>} }

ExampleRecord(buildNumber) ==
  AppStoreVersion("version-next", SemanticVersion(VersionString(1, 0, 1)),
                  buildNumber, "PREPARE_FOR_SUBMISSION", "IOS")

ValuesInit ==
  /\ \/ /\ valuePc = "version"
        /\ versionInput \in VersionInputs
        /\ buildValue = 0
     \/ /\ valuePc = "build"
        /\ versionInput = << >>
        /\ buildValue \in 0..MaxBuild
  /\ parsedVersion = None
  /\ versionText = << >>
  /\ incrementedVersion = None
  /\ incrementedBuild = None
  /\ EngineIdle /\ ResolverIdle /\ MaxIdle /\ BackendIdle /\ RunIdle
  /\ OrderIdle /\ CallIdle

ValuesFrame ==
  UNCHANGED <<engineVars, resolverVars, maxVars, backendVars, runVars, orderVars, callVars>>

\* new SemanticVersion(versionString), then toString()
ParseVersion ==
  /\ valuePc = "version"
  /\ IF SEMANTIC_VERSION_PATTERN(versionInput)
       THEN /\ parsedVersion' = Some(SemanticVersion(versionInput))
            /\ versionText' = VersionToString(SemanticVersion(versionInput))
            /\ valuePc' = "parsed"
       ELSE /\ valuePc' = "invalid"
            /\ UNCHANGED <<parsedVersion, versionText>>
  /\ UNCHANGED <<versionInput, incrementedVersion, buildValue, incrementedBuild>>
  /\ ValuesFrame

IncrementPatch ==
  /\ valuePc = "parsed"
  /\ incrementedVersion' = Some(incrementPatch(Get(parsedVersion)))
  /\ valuePc' = "patch"
  /\ UNCHANGED <<versionInput, parsedVersion, versionText, buildValue, incrementedBuild>>
  /\ ValuesFrame

IncrementMinor ==
  /\ valuePc = "parsed"
  /\ incrementedVersion' = Some(incrementMinor(Get(parsedVersion)))
  /\ valuePc' = "minor"
  /\ UNCHANGED <<versionInput, parsedVersion, versionText, buildValue, incrementedBuild>>
  /\ ValuesFrame

IncrementMajor ==
  /\ valuePc = "parsed"
  /\ incrementedVersion' = Some(incrementMajor(Get(parsedVersion)))
  /\ valuePc' = "major"
  /\ UNCHANGED <<versionInput, parsedVersion, versionText, buildValue, incrementedBuild>>
  /\ ValuesFrame

\* new BuildNumber(n).increment()
IncrementBuildNumber ==
  /\ valuePc = "build"
  /\ incrementedBuild' = Some(BuildNumberIncrement(buildValue))
  /\ valuePc' = "incremented"
  /\ UNCHANGED <<versionInput, parsedVersion, versionText, incrementedVersion, buildValue>>
  /\ ValuesFrame

\* calculateNextBuildNumber() of a record whose build number is n
CalculateNextBuildNumber ==
  /\ valuePc = "build"
  /\ incrementedBuild' = Some(calculateNextBuildNumber(ExampleRecord(buildValue)))
  /\ valuePc' = "record"
  /\ UNCHANGED <<versionInput, parsedVersion, versionText, incrementedVersion, buildValue>>
  /\ ValuesFrame

ValuesNext ==
  \/ ParseVersion
  \/ IncrementPatch
  \/ IncrementMinor
  \/ IncrementMajor
  \/ IncrementBuildNumber
  \/ CalculateNextBuildNumber

SpecValues == ValuesInit /\ [][ValuesNext]_vars

(***************************************************************************)
(* Claims about the value objects.                                         *)
(***************************************************************************)
NoLeadingZero(digits) == Len(digits) = 1 \/ digits[1] # 0

Canonical(s) == \A i \in 1..3 : NoLeadingZero(s[i])

\* C18 as stated: for every string s matching ^\d+\.\d+\.\d+$, parsing s
\* and printing the version gives s back exactly.
C18_RoundTrip ==
  valuePc = "parsed" => versionText = versionInput

\* C18 as amended: parsing and printing gives each component written without
\* leading zeros; the result is s exactly when no component of s has a
\* leading zero.
C18_RoundTripOfCanonical ==
  valuePc = "parsed" =>
    /\ \A i \in 1..3 : versionText[i] = ToDigits(ParseInt(versionInput[i]))
    /\ Canonical(versionText)
    /\ versionText = versionInput <=> Canonical(versionInput)

C18_Witness ==
  /\ valuePc = "parsed"
  /\ versionInput = <<<<1>>, <<2, 0>>, <<0>>>>
  /\ versionText = versionInput

\* C19: for every version (a, b, c), incrementPatch gives (a, b, c + 1),
\* incrementMinor (a, b + 1, 0) and incrementMajor (a + 1, 0, 0), as a new
\* version, the original keeping its components.
C19_Increments ==
  valuePc \in {"patch", "minor", "major"} =>
    LET original == SemanticVersion(versionInput)
        new == Get(incrementedVersion)
    IN /\ parsedVersion = Some(original)
       /\ valuePc = "patch" =>
            new = [major |-> original.major, minor |-> original.minor,
                   patch |-> original.patch + 1]
       /\ valuePc = "minor" =>
            new = [major |-> original.major, minor |-> original.minor + 1,
                   patch |-> 0]
       /\ valuePc = "major" =>
            new = [major |-> original.major + 1, minor |-> 0, patch |-> 0]

C19_Witness ==
  /\ valuePc = "minor"
  /\ parsedVersion = Some([major |-> 1, minor |-> 2, patch |-> 2])
  /\ incrementedVersion = Some([major |-> 1, minor |-> 3, patch |-> 0])

\* C20: for every build number n, increment() gives a build number n + 1
\* and the original still has the value n; a release record whose build
\* number is n reports n + 1 from calculateNextBuildNumber().
C20_BuildNumberIncrement ==
  [][valuePc = "build" =>
       /\ buildValue' = buildValue
       /\ incrementedBuild' = Some(buildValue + 1)]_vars

C20_Witness ==
  /\ valuePc = "record"
  /\ buildValue = MaxBuild
  /\ incrementedBuild = Some(MaxBuild + 1)

(***************************************************************************)
(* SpecOrder: compareTo and isGreaterThan of three versions, or of three   *)
(* build numbers, each compared with each.                                 *)
(***************************************************************************)
\* Largest major component compared.
MaxMajor == 1

OrderVersions ==
  { SemanticVersion(VersionString(a, b, c)) :
      a \in 0..MaxMajor, b \in 0..MaxDigit, c \in 0..MaxDigit }

OrderInit ==
  /\ \/ /\ orderPc = "versions"
        /\ operands \in [1..3 -> OrderVersions]
     \/ /\ orderPc = "buildNumbers"
        /\ operands \in [1..3 -> 0..MaxBuild]
  /\ comparisons = << >>
  /\ greater = << >>
  /\ EngineIdle /\ ResolverIdle /\ MaxIdle /\ BackendIdle /\ RunIdle
  /\ ValueIdle /\ CallIdle

OrderFrame ==
  UNCHANGED <<engineVars, resolverVars, maxVars, backendVars, runVars, valueVars,
              callVars>>

\* a.compareTo(b) and a.isGreaterThan(b) for every pair of the versions
CompareVersions ==
  /\ orderPc = "versions"
  /\ comparisons' = [i \in 1..3 |->
                       [j \in 1..3 |-> VersionCompareTo(operands[i], operands[j])]]
  /\ greater' = [i \in 1..3 |->
                   [j \in 1..3 |-> VersionIsGreaterThan(operands[i], operands[j])]]
  /\ orderPc' = "versionsCompared"
  /\ UNCHANGED operands
  /\ OrderFrame

\* a.compareTo(b) and a.isGreaterThan(b) for every pair of the build numbers
CompareBuildNumbers ==
  /\ orderPc = "buildNumbers"
  /\ comparisons' = [i \in 1..3 |->
                       [j \in 1..3 |-> BuildNumberCompareTo(operands[i], operands[j])]]
  /\ greater' = [i \in 1..3 |->
                   [j \in 1..3 |-> BuildNumberIsGreaterThan(operands[i], operands[j])]]
  /\ orderPc' = "buildNumbersCompared"
  /\ UNCHANGED operands
  /\ OrderFrame

OrderNext ==
  \/ CompareVersions
  \/ CompareBuildNumbers

SpecOrder == OrderInit /\ [][OrderNext]_vars

Sign(n) == IF n > 0 THEN 1 ELSE IF n < 0 THEN -1 ELSE 0

\* C21: for all versions and for all build numbers, compareTo is
\* antisymmetric (the sign of a.compareTo(b) is the opposite of the sign of
\* b.compareTo(a)) and transitive (a > b and b > c imply a > c), and
\* isGreaterThan(a, b) holds exactly when a.compareTo(b) is positive.
C21_CompareToIsAnOrder ==
  orderPc \in {"versionsCompared", "buildNumbersCompared"} =>
    /\ \A i, j \in 1..3 :
         Sign(comparisons[i][j]) = -Sign(comparisons[j][i])
    /\ \A i, j, k \in 1..3 :
         comparisons[i][j] > 0 /\ comparisons[j][k] > 0 => comparisons[i][k] > 0
    /\ \A i, j \in 1..3 : greater[i][j] <=> comparisons[i][j] > 0

C21_Witness ==
  /\ orderPc = "versionsCompared"
  /\ operands[1] = [major |-> 1, minor |-> 0, patch |-> 0]
  /\ operands[2] = [major |-> 0, minor |-> 2, patch |-> 0]
  /\ operands[3] = [major |-> 0, minor |-> 1, patch |-> 2]
  /\ greater[1][2] /\ greater[2][3] /\ greater[1][3]
  /\ comparisons[2][1] < 0

(***************************************************************************)
(* SpecCalls: the backend calls of one invocation, with the start of a     *)
(* call and its completion as separate steps.  A call site is the index of *)
(* an awaited client call in the order of the source text.                 *)
(***************************************************************************)
GetMaxBuildNumberCalls ==
  <<"getBuildForVersion", "getPreReleaseVersions",
    "getBuilds(preReleaseVersion)", "getBuilds(app, version)">>

DetermineNextVersionCalls ==
  <<"findApplicationByBundleId", "fetchAppStoreVersions(state)",
    "fetchBuildNumberForVersion(live)", "fetchAppStoreVersions(version)",
    "fetchBuilds", "fetchBuildNumberForVersion(next)",
    "createNewAppStoreVersion">>

CallSites(program) ==
  IF program = "getMaxBuildNumber" THEN GetMaxBuildNumberCalls
  ELSE DetermineNextVersionCalls

\* What a completed call brought: data, an empty answer, or a rejection.
Outcomes == {"value", "empty", "failed"}

\* A call whose promise is left pending while the function moves on.
FireAndForget(site) == <<"at", site + 1>>

\* await client.call(...): the function is suspended until the call settles
Await(site) == <<"awaiting", site>>

\* Where getMaxBuildNumber continues once the call of a site has settled
ResumeGetMaxBuildNumber(site, outcome) ==
  CASE site = 1 -> IF outcome = "value" THEN <<"returned">> ELSE <<"at", 2>>
    [] site = 2 -> IF outcome = "value" THEN <<"at", 3>> ELSE <<"at", 4>>
    [] site = 3 -> IF outcome = "value" THEN <<"returned">> ELSE <<"at", 4>>
    [] site = 4 -> <<"returned">>

\* Where determineNextVersion continues once the call of a site has settled
ResumeDetermineNextVersion(site, outcome, exists, create, blocked) ==
  IF outcome = "failed" THEN <<"thrown">>
  ELSE CASE site \in {1, 2, 3} ->
              IF outcome = "value" THEN <<"at", site + 1>> ELSE <<"thrown">>
         [] site = 4 -> <<"at", 5>>
         [] site = 5 -> IF exists THEN <<"at", 6>>
                        ELSE IF create THEN <<"at", 7>>
                        ELSE <<"returned">>
         [] site = 6 -> IF blocked THEN <<"thrown">> ELSE <<"returned">>
         [] site = 7 -> <<"returned">>

Event(kind, site, outcome) == [kind |-> kind, site |-> site, outcome |-> outcome]

CandidateFound(history) ==
  \E i \in 1..Len(history) :
    history[i] = Event("returned", 4, "value")

CallsInit ==
  /\ callProgram \in {"getMaxBuildNumber", "determineNextVersion"}
  /\ callInput \in BOOLEAN
  /\ callPc = <<"at", 1>>
  /\ inFlight = {}
  /\ events = << >>
  /\ EngineIdle /\ ResolverIdle /\ MaxIdle /\ BackendIdle /\ RunIdle
  /\ ValueIdle /\ OrderIdle

CallsFrame ==
  UNCHANGED <<engineVars, resolverVars, maxVars, backendVars, runVars, valueVars,
              orderVars>>

\* if (!versionInfo) return 0
ReturnWithoutCall ==
  /\ callProgram = "getMaxBuildNumber"
  /\ ~callInput
  /\ callPc = <<"at", 1>>
  /\ callPc' = <<"returned">>
  /\ UNCHANGED <<callProgram, callInput, inFlight, events>>
  /\ CallsFrame

StartCall ==
  /\ callPc[1] = "at"
  /\ callProgram = "getMaxBuildNumber" => callInput
  /\ LET site == callPc[2]
     IN /\ site <= Len(CallSites(callProgram))
        /\ inFlight' = inFlight \cup {site}
        /\ events' = Append(events, Event("started", site, "pending"))
        /\ callPc' = Await(site)
  /\ UNCHANGED <<callProgram, callInput>>
  /\ CallsFrame

Settle(site, outcome, blocked) ==
  /\ site \in inFlight
  /\ inFlight' = inFlight \ {site}
  /\ events' = Append(events, Event(IF outcome = "failed" THEN "failed" ELSE "returned",
                                    site, outcome))
  /\ callPc' = IF callPc # <<"awaiting", site>> THEN callPc
               ELSE IF callProgram = "getMaxBuildNumber"
                 THEN ResumeGetMaxBuildNumber(site, outcome)
               ELSE ResumeDetermineNextVersion(site, outcome, CandidateFound(events'),
                                               callInput, blocked)
  /\ UNCHANGED <<callProgram, callInput>>
  /\ CallsFrame

CallReturns ==
  \E site \in inFlight, outcome \in {"value", "empty"}, blocked \in BOOLEAN :
    Settle(site, outcome, blocked)

CallFails ==
  \E site \in inFlight : Settle(site, "failed", FALSE)

CallsNext ==
  \/ ReturnWithoutCall
  \/ StartCall
  \/ CallReturns
  \/ CallFails

SpecCalls == CallsInit /\ [][CallsNext]_vars

Completed(e) == e.kind \in {"returned", "failed"}

\* C22: backend calls are issued strictly one at a time: at most one call is
\* outstanding, a call is started only after the previous one has returned or
\* failed, and the resolver starts source k + 1 only directly after source k
\* has completed without a value.
C22_CallsAreSequential ==
  /\ Cardinality(inFlight) <= 1
  /\ \A i \in 2..Len(events) :
       events[i].kind = "started" =>
         /\ Completed(events[i - 1])
         /\ \A j \in 1..(i - 1) :
              events[j].kind = "started" =>
                \E k \in (j + 1)..(i - 1) :
                  Completed(events[k]) /\ events[k].site = events[j].site
  /\ callProgram = "getMaxBuildNumber" =>
       \A i \in 1..Len(events) :
         /\ events[i] = Event("started", 2, "pending") =>
              /\ i > 1
              /\ events[i - 1] \in {Event("returned", 1, "empty"), Event("failed", 1, "failed")}
         /\ events[i] = Event("started", 4, "pending") =>
              /\ i > 1
              /\ events[i - 1] \in
                   {Event("returned", 2, "empty"), Event("failed", 2, "failed"),
                    Event("returned", 3, "empty"), Event("failed", 3, "failed")}

C22_Witness ==
  /\ callProgram = "getMaxBuildNumber"
  /\ callPc = <<"returned">>
  /\ events = <<Event("started", 1, "pending"), Event("failed", 1, "failed"),
                Event("started", 2, "pending"), Event("returned", 2, "value"),
                Event("started", 3, "pending"), Event("returned", 3, "empty"),
                Event("started", 4, "pending"), Event("returned", 4, "value")>>

(***************************************************************************)
(* SpecOrchestration: one run of services/orchestrationService.js, whose   *)
(* engine is determineNextVersionAndBuild of services/versioningService.js.*)
(* The run uses the variables of a run: liveVersion holds liveVersionInfo, *)
(* maxUploadedBuild holds liveMaxBuild, existingNextVersion holds          *)
(* nextVersionInfo, nextVersion holds the calculated version string.       *)
(***************************************************************************)
\* const incrementStates = [...]
incrementStates ==
  {"PREPARE_FOR_SUBMISSION", "REJECTED", "DEVELOPER_REJECTED", "METADATA_REJECTED",
   "WAITING_FOR_REVIEW", "IN_REVIEW"}

\* liveVersion.split('.').map(Number), versionParts[2] += 1, join('.')
nextVersionString(live) ==
  VersionString(ParseInt(live[1]), ParseInt(live[2]), ParseInt(live[3]) + 1)

\* checkVersionExists: null for no data, otherwise the first element
checkVersionExists(answer) ==
  IF Len(answer) = 0 THEN None ELSE Some(answer[1])

\* What getMaxBuildNumber may return for a release: 0, or the counter of one
\* of the uploaded builds.
MaxBuildNumberAnswers == {0} \cup builds

VersionAndBuild(version, buildNumber, action) ==
  [version |-> version, buildNumber |-> buildNumber, action |-> action]

\* An engine that increments the build of every existing version.
determineNextVersionAndBuildAnyState(next, nextVersionInfo, liveMaxBuild, maxBuild) ==
  IF ~IsSome(nextVersionInfo)
    THEN VersionAndBuild(Some(next), Some(liveMaxBuild + 1), "new_version")
    ELSE VersionAndBuild(Some(next), Some(maxBuild + 1), "increment_build")

\* determineNextVersionAndBuild once checkVersionExists has answered;
\* maxBuild is what getMaxBuildNumber answers when it is asked
determineNextVersionAndBuild(next, nextVersionInfo, liveMaxBuild, maxBuild) ==
  IF ~IsSome(nextVersionInfo)
    THEN VersionAndBuild(Some(next), Some(liveMaxBuild + 1), "new_version")
    ELSE IF Get(nextVersionInfo).appStoreState \in incrementStates
      THEN VersionAndBuild(Some(next), Some(maxBuild + 1), "increment_build")
      ELSE VersionAndBuild(None, None, "skip")

\* return { version: version || '', buildNumber: buildNumber || '', ... }
OrchestrationResult(decision, created, live, liveMaxBuild) ==
  [version |-> IF IsSome(decision.version) THEN Get(decision.version) ELSE << >>,
   buildNumber |-> IF IsSome(decision.buildNumber)
                     THEN ToDigits(Get(decision.buildNumber)) ELSE << >>,
   action |-> decision.action,
   versionCreated |-> created,
   liveVersion |-> live,
   liveMaxBuild |-> liveMaxBuild]

PlainError(message) == [ok |-> FALSE, message |-> message]

OrchestrationInit ==
  /\ pc = "findApp"
  /\ builds \in { 1..n : n \in {0, 2} }
  /\ releases \in { L \cup O : L \in SUBSET LiveReleases,
                                O \in {{}} \cup { {o} : o \in OtherReleases } }
  /\ createNewVersion \in BOOLEAN
  /\ platform \in {"IOS", "MAC_OS"}
  /\ app = None
  /\ liveVersion = None
  /\ nextVersion = None
  /\ existingNextVersion = None
  /\ maxUploadedBuild = None
  /\ actionResult = None
  /\ versionCreated = FALSE
  /\ result = None
  /\ error = None
  /\ calls = << >>
  /\ heap = << >>
  /\ EngineIdle /\ ResolverIdle /\ MaxIdle /\ ValueIdle /\ OrderIdle /\ CallIdle

OrchestrationFrame ==
  UNCHANGED <<engineVars, resolverVars, maxVars, valueVars, orderVars, callVars,
              createNewVersion, platform, builds, heap>>

OrchestrationFails(op, failure) ==
  /\ calls' = Append(calls, Call(op, "app-1", None))
  /\ pc' = "failed"
  /\ error' = Some(failure)

\* findApp
findApp ==
  /\ pc = "findApp"
  /\ \/ /\ app' = Some([id |-> "app-1", bundleId |-> "com.example.app"])
        /\ calls' = Append(calls, Call("getApps", "com.example.app", Some(1)))
        /\ pc' = "getLiveVersion"
        /\ error' = error
     \/ /\ OrchestrationFails("getApps", PlainError("No app found with bundle ID"))
        /\ app' = app
     \/ /\ OrchestrationFails("getApps", Rejected)
        /\ app' = app
  /\ UNCHANGED <<liveVersion, nextVersion, existingNextVersion, maxUploadedBuild,
                 actionResult, versionCreated, result, releases>>
  /\ OrchestrationFrame

\* getLiveVersion: the first release of the answer
getLiveVersion ==
  /\ pc = "getLiveVersion"
  /\ \/ \E answer \in VersionListAnswers({ r \in releases : r.appStoreState = "READY_FOR_SALE" }) :
          /\ calls' = Append(calls, Call("getAppStoreVersions", "READY_FOR_SALE",
                                         Some(Len(answer))))
          /\ IF Len(answer) = 0
               THEN /\ pc' = "failed"
                    /\ error' = Some(PlainError("No live version found for app"))
                    /\ liveVersion' = liveVersion
               ELSE /\ pc' = "getMaxBuildNumber"
                    /\ error' = error
                    /\ liveVersion' = Some(answer[1])
     \/ /\ OrchestrationFails("getAppStoreVersions", Rejected)
        /\ liveVersion' = liveVersion
  /\ UNCHANGED <<app, nextVersion, existingNextVersion, maxUploadedBuild,
                 actionResult, versionCreated, result, releases>>
  /\ OrchestrationFrame

\* getMaxBuildNumber(liveVersionInfo, appId, token): it never throws
getLiveMaxBuild ==
  /\ pc = "getMaxBuildNumber"
  /\ \E liveMaxBuild \in MaxBuildNumberAnswers :
       /\ maxUploadedBuild' = Some(liveMaxBuild)
       /\ calls' = Append(calls, Call("getMaxBuildNumber", Get(liveVersion).id,
                                      Some(liveMaxBuild)))
  /\ pc' = "determineNextVersionAndBuild"
  /\ UNCHANGED <<app, liveVersion, nextVersion, existingNextVersion, actionResult,
                 versionCreated, result, error, releases>>
  /\ OrchestrationFrame

\* determineNextVersionAndBuild, then the choice of creating the version
\* and, without creation, the returned object
determineNextVersionAndBuildStep ==
  /\ pc = "determineNextVersionAndBuild"
  /\ LET next == nextVersionString(Get(liveVersion).versionString)
     IN \/ \E answer \in VersionListAnswers({ r \in releases : r.versionString = next }),
              maxBuild \in MaxBuildNumberAnswers :
             LET nextVersionInfo == checkVersionExists(answer)
                 decision == determineNextVersionAndBuild(next, nextVersionInfo,
                                                          Get(maxUploadedBuild), maxBuild)
             IN /\ nextVersion' = Some(next)
                /\ existingNextVersion' = nextVersionInfo
                /\ actionResult' = Some(decision)
                /\ calls' =
                     IF decision.action = "increment_build"
                       THEN calls \o <<Call("checkVersionExists", next, Some(Len(answer))),
                                       Call("getMaxBuildNumber", Get(nextVersionInfo).id,
                                            Some(maxBuild))>>
                       ELSE Append(calls, Call("checkVersionExists", next, Some(Len(answer))))
                /\ error' = error
                /\ IF decision.action = "new_version" /\ createNewVersion
                     THEN /\ pc' = "createNewVersion"
                          /\ result' = result
                     ELSE /\ pc' = "done"
                          /\ result' = Some(OrchestrationResult(decision, FALSE,
                                              Get(liveVersion).versionString,
                                              Get(maxUploadedBuild)))
        \/ /\ OrchestrationFails("checkVersionExists", Rejected)
           /\ UNCHANGED <<nextVersion, existingNextVersion, actionResult, result>>
  /\ UNCHANGED <<app, liveVersion, maxUploadedBuild, versionCreated, releases>>
  /\ OrchestrationFrame

\* createNewVersion(appId, version, platform, token), then the returned object
createNewVersionStep ==
  /\ pc = "createNewVersion"
  /\ \/ /\ releases' = releases \cup
                         { ReleaseResource("v-new", Get(nextVersion),
                                           "PREPARE_FOR_SUBMISSION", platform) }
        /\ calls' = Append(calls, Call("createAppStoreVersion", platform, Some(1)))
        /\ versionCreated' = TRUE
        /\ result' = Some(OrchestrationResult(Get(actionResult), TRUE,
                                              Get(liveVersion).versionString,
                                              Get(maxUploadedBuild)))
        /\ pc' = "done"
        /\ error' = error
     \/ /\ OrchestrationFails("createAppStoreVersion", Rejected)
        /\ UNCHANGED <<releases, versionCreated, result>>
  /\ UNCHANGED <<app, liveVersion, nextVersion, existingNextVersion,
                 maxUploadedBuild, actionResult>>
  /\ OrchestrationFrame

OrchestrationNext ==
  \/ findApp
  \/ getLiveVersion
  \/ getLiveMaxBuild
  \/ determineNextVersionAndBuildStep
  \/ createNewVersionStep

SpecOrchestration == OrchestrationInit /\ [][OrchestrationNext]_vars

====
